---------------------------- MODULE Spec2Model ----------------------------
(***************************************************************************)
(* Model of the schema ingestion and maintenance engine of SF_Orchestrator *)
(* (src/unnamed/part_000): get_column_type, DatabaseManager and            *)
(* ScreamingFrogWrapper, all working on the one SQLite store               *)
(* 'screaming_frog_results.db'.                                            *)
(*                                                                         *)
(* Text (column names, table names, file names) is a sequence of           *)
(* one-character strings, so that lower(), replace(), strip(), endswith()  *)
(* and "in" are computed as Python computes them.                          *)
(***************************************************************************)
EXTENDS Integers, Sequences, FiniteSets, Bags, TLC

---------------------------------------------------------------------------
(* Bounds of the model. *)

MaxCols ==
    3

MaxBatchRows ==
    1

MaxRows ==
    1

MaxCrawls ==
    1

MaxElapsed ==
    1

MaxLog ==
    1

---------------------------------------------------------------------------
(* Text helpers: the str methods the code uses. *)

UpperAlpha ==
    <<"A","B","C","D","E","F","G","H","I","J","K","L","M","N","O","P","Q","R","S","T","U","V","W","X","Y","Z">>

LowerAlpha ==
    <<"a","b","c","d","e","f","g","h","i","j","k","l","m","n","o","p","q","r","s","t","u","v","w","x","y","z">>

LowerOf ==
    [c \in {UpperAlpha[i] : i \in 1..Len(UpperAlpha)} |->
        LowerAlpha[CHOOSE i \in 1..Len(UpperAlpha) : UpperAlpha[i] = c]]

LowerChar(c) ==
    IF c \in DOMAIN LowerOf THEN LowerOf[c] ELSE c

\* str.lower()
Lower(s) ==
    [i \in 1..Len(s) |-> LowerChar(s[i])]

\* str.replace(a, b) for one-character a and b
Replace(s, a, b) ==
    [i \in 1..Len(s) |-> IF s[i] = a THEN b ELSE s[i]]

RECURSIVE LStrip(_)
LStrip(s) ==
    IF s # <<>> /\ Head(s) = " " THEN LStrip(Tail(s)) ELSE s

RECURSIVE RStrip(_)
RStrip(s) ==
    IF s # <<>> /\ s[Len(s)] = " " THEN RStrip(SubSeq(s, 1, Len(s) - 1)) ELSE s

\* str.strip()
Strip(s) ==
    RStrip(LStrip(s))

\* str.endswith(suf)
EndsWith(s, suf) ==
    /\ Len(suf) <= Len(s)
    /\ SubSeq(s, Len(s) - Len(suf) + 1, Len(s)) = suf

\* str.startswith(pre)
StartsWith(s, pre) ==
    /\ Len(pre) <= Len(s)
    /\ SubSeq(s, 1, Len(pre)) = pre

\* sub in s
Contains(s, sub) ==
    \E i \in 1..(Len(s) - Len(sub) + 1) : SubSeq(s, i, i + Len(sub) - 1) = sub

Range(s) ==
    {s[i] : i \in 1..Len(s)}

\* Whether SQLite reads the unquoted text s as one name: letters, digits
\* and underscores, no digit first (keywords are not told apart)
IsIdentifier(s) ==
    /\ s # <<>>
    /\ \A i \in 1..Len(s) :
         s[i] \in Range(UpperAlpha) \cup Range(LowerAlpha) \cup {"_"}
                   \cup {"0","1","2","3","4","5","6","7","8","9"}
    /\ s[1] \notin {"0","1","2","3","4","5","6","7","8","9"}

---------------------------------------------------------------------------
(* get_column_type: the type inferencer. *)

\* The kinds of sample value the code tells apart: pd.isna, (int, float),
\* (datetime, pd.Timestamp), anything else. The first row of a frame holds
\* the integers of an integer column as numpy.int64, which is no instance
\* of int: "int64" is such a sample, "number" a Python int or any float.
Kinds ==
    {"null", "number", "int64", "datetime", "str"}

numeric_indicators ==
    { <<"_","m","s">>, <<"_","b","y","t","e","s">>, <<"_","l","e","n","g","t","h">>,
      <<"_","s","i","z","e">>, <<"_","c","o","u","n","t">>,
      <<"_","n","u","m","b","e","r">>, <<"_","c","o","d","e">> }

timestamp_indicators ==
    { <<"_","d","a","t","e">>, <<"_","t","i","m","e">>,
      <<"t","i","m","e","s","t","a","m","p">>,
      <<"l","a","s","t","_","m","o","d","i","f","i","e","d">> }

\* The inferencer with its two name tests in the other order
get_column_type_timestamp_first(column_name, sample_kind) ==
    IF \E ind \in timestamp_indicators : Contains(Lower(column_name), ind)
    THEN "TIMESTAMP"
    ELSE IF \E ind \in numeric_indicators : EndsWith(Lower(column_name), ind)
    THEN "REAL"
    ELSE IF sample_kind = "null" THEN "TEXT"
    ELSE IF sample_kind = "number" THEN "REAL"
    ELSE IF sample_kind = "datetime" THEN "TIMESTAMP"
    ELSE "TEXT"

get_column_type(column_name, sample_kind) ==
    IF \E ind \in numeric_indicators : EndsWith(Lower(column_name), ind)
    THEN "REAL"
    ELSE IF \E ind \in timestamp_indicators : Contains(Lower(column_name), ind)
    THEN "TIMESTAMP"
    ELSE IF sample_kind = "null" THEN "TEXT"
    ELSE IF sample_kind = "number" THEN "REAL"
    ELSE IF sample_kind = "datetime" THEN "TIMESTAMP"
    ELSE "TEXT"

---------------------------------------------------------------------------
(* Names used by the code. *)

T_crawl_metadata ==
    <<"c","r","a","w","l","_","m","e","t","a","d","a","t","a">>

T_crawl_results ==
    <<"c","r","a","w","l","_","r","e","s","u","l","t","s">>

T_maintenance_log ==
    <<"m","a","i","n","t","e","n","a","n","c","e","_","l","o","g">>

T_schema_version ==
    <<"s","c","h","e","m","a","_","v","e","r","s","i","o","n">>

T_table_schemas ==
    <<"t","a","b","l","e","_","s","c","h","e","m","a","s">>

C_id ==
    <<"i","d">>

C_crawl_id ==
    <<"c","r","a","w","l","_","i","d">>

C_processed_at ==
    <<"p","r","o","c","e","s","s","e","d","_","a","t">>

C_source_file ==
    <<"s","o","u","r","c","e","_","f","i","l","e">>

C_url ==
    <<"u","r","l">>

C_status_code ==
    <<"s","t","a","t","u","s","_","c","o","d","e">>

C_response_time_ms ==
    <<"r","e","s","p","o","n","s","e","_","t","i","m","e","_","m","s">>

C_crawl_date ==
    <<"c","r","a","w","l","_","d","a","t","e">>

Col(n, t) ==
    [name |-> n, type |-> t]

\* CREATE TABLE crawl_metadata of DatabaseManager.setup_database
CrawlMetadataColumnsDM ==
    { Col(C_id, "INTEGER"), Col(C_url, "TEXT"), Col(C_crawl_date, "TIMESTAMP"),
      Col(<<"c","o","n","f","i","g","_","u","s","e","d">>, "TEXT"),
      Col(<<"c","r","a","w","l","_","s","t","a","t","u","s">>, "TEXT"),
      Col(<<"t","o","t","a","l","_","u","r","l","s">>, "INTEGER"),
      Col(<<"c","o","m","p","l","e","t","i","o","n","_","t","i","m","e">>, "INTEGER"),
      Col(<<"e","r","r","o","r","_","m","e","s","s","a","g","e">>, "TEXT") }

\* CREATE TABLE crawl_metadata of ScreamingFrogWrapper.setup_database
CrawlMetadataColumns ==
    CrawlMetadataColumnsDM \cup
    { Col(<<"c","o","m","m","a","n","d","_","e","x","e","c","u","t","e","d">>, "TEXT") }

\* CREATE TABLE crawl_results of ScreamingFrogWrapper.setup_database
CrawlResultsColumns ==
    { Col(C_id, "INTEGER"), Col(C_crawl_id, "INTEGER"), Col(C_url, "TEXT"),
      Col(C_status_code, "INTEGER"), Col(<<"t","i","t","l","e">>, "TEXT"),
      Col(<<"m","e","t","a","_","d","e","s","c","r","i","p","t","i","o","n">>, "TEXT"),
      Col(<<"h","1">>, "TEXT"),
      Col(<<"c","o","n","t","e","n","t","_","t","y","p","e">>, "TEXT"),
      Col(<<"w","o","r","d","_","c","o","u","n","t">>, "INTEGER"),
      Col(<<"c","r","a","w","l","_","d","e","p","t","h">>, "INTEGER"),
      Col(<<"l","o","a","d","_","t","i","m","e">>, "REAL") }


---------------------------------------------------------------------------
(* Inputs. *)

\* Field names of the CSV headers fed to the engine.
H_URL ==
    <<"U","R","L">>

H_StatusCode ==
    <<"S","t","a","t","u","s"," ","C","o","d","e">>

H_ResponseTimeMs ==
    <<"R","e","s","p","o","n","s","e"," ","T","i","m","e"," ","m","s">>

\* The header line of a full export
HeaderLine ==
    <<H_URL, H_StatusCode, H_ResponseTimeMs>>

\* The kind of value a field has in a row that carries values.
TypicalKind(h) ==
    IF h = H_URL THEN "str" ELSE "number"

\* The fields of HeaderLine at the positions in S, in their order
RECURSIVE Pick(_, _)
Pick(S, i) ==
    IF i > Len(HeaderLine) THEN <<>>
    ELSE IF i \in S THEN <<HeaderLine[i]>> \o Pick(S, i + 1)
    ELSE Pick(S, i + 1)

\* Header lines of exports: at most MaxCols fields of HeaderLine
HeaderSeqs ==
    { Pick(S, 1) : S \in {X \in SUBSET (1..Len(HeaderLine)) :
                            X # {} /\ Cardinality(X) <= MaxCols} }

\* A batch: a parsed CSV (header line, number of rows, and whether the
\* first row holds only missing values), or an unparsable file.
ParsableBatches ==
    { [parsable |-> TRUE, columns |-> c, nrows |-> n, nulls |-> b] :
        c \in HeaderSeqs, n \in 0..MaxBatchRows, b \in BOOLEAN }

Batches ==
    {b \in ParsableBatches : b.nrows > 0 \/ b.nulls}
    \cup { [parsable |-> FALSE, columns |-> <<>>, nrows |-> 0, nulls |-> TRUE] }

\* A field name that differs from H_StatusCode in case and separator only
H_status_code ==
    <<"s","t","a","t","u","s","-","c","o","d","e">>

\* A header line with two fields that have the same name once cleaned
CollidingLine ==
    <<H_StatusCode, H_status_code, H_URL>>

CollidingBatches ==
    { [parsable |-> TRUE, columns |-> c, nrows |-> n, nulls |-> (n = 0)] :
        c \in {CollidingLine, SubSeq(CollidingLine, 1, 2)}, n \in 0..MaxBatchRows }

\* A field name of the exports that is no identifier once cleaned
H_SizeBytes ==
    <<"S","i","z","e"," ","(","b","y","t","e","s",")">>

ParenBatches ==
    { [parsable |-> TRUE, columns |-> <<H_URL, H_SizeBytes>>, nrows |-> n,
       nulls |-> (n = 0)] : n \in 0..MaxBatchRows }

\* CSV files handed to the engine.
F_a_b ==
    <<"o","/","a","-","b",".","c","s","v">>

F_sf_a_b ==
    <<"s","f","_","a","_","b",".","c","s","v">>

Files ==
    {F_a_b, F_sf_a_b}

DMs ==
    {"A", "B"}

NULL ==
    "NULL"

---------------------------------------------------------------------------
(* DatabaseManager._determine_table_name *)

RECURSIVE Basename(_)
Basename(s) ==
    IF \E i \in 1..Len(s) : s[i] = "/"
    THEN Basename(SubSeq(s, (CHOOSE i \in 1..Len(s) : s[i] = "/") + 1, Len(s)))
    ELSE s

\* Path(...).stem: the final component without its last suffix
Stem(s) ==
    LET b == Basename(s)
        dots == {i \in 2..(Len(b) - 1) : b[i] = "."}
    IN  IF dots = {} THEN b
        ELSE SubSeq(b, 1, (CHOOSE i \in dots : \A j \in dots : j <= i) - 1)

sf_prefix ==
    <<"s","f","_">>

\* The namer without its startswith test
determine_table_name_always_prefixed(csv_file) ==
    LET base_name == Lower(Stem(csv_file))
        clean_name == Replace(Replace(base_name, " ", "_"), "-", "_")
    IN  sf_prefix \o clean_name

determine_table_name(csv_file) ==
    LET base_name == Lower(Stem(csv_file))
        clean_name == Replace(Replace(base_name, " ", "_"), "-", "_")
    IN  IF ~StartsWith(clean_name, sf_prefix) THEN sf_prefix \o clean_name
        ELSE clean_name

ResultTables ==
    {determine_table_name(f) : f \in Files}

---------------------------------------------------------------------------
(* DatabaseManager.process_screaming_frog_csv: the frame it builds. *)

\* The frame a caller builds from a batch without touching the labels.
RawFrame(b) ==
    [columns |-> b.columns,
     kinds |-> [i \in 1..Len(b.columns) |->
                  IF b.nulls THEN "null" ELSE TypicalKind(b.columns[i])],
     nrows |-> b.nrows]

\* col.strip().replace(' ', '_').replace('-', '_').lower()
CleanColName(col) ==
    Lower(Replace(Replace(Strip(col), " ", "_"), "-", "_"))

\* df[name] = value: overwrites the column of that label, else appends one
SetColumn(df, name, kind) ==
    IF name \in Range(df.columns)
    THEN [df EXCEPT !.kinds = [i \in 1..Len(df.columns) |->
                                 IF df.columns[i] = name THEN kind ELSE df.kinds[i]]]
    ELSE [df EXCEPT !.columns = Append(df.columns, name),
                    !.kinds = Append(df.kinds, kind)]

TaggedFrame(b) ==
    LET raw == RawFrame(b)
        cleaned == [raw EXCEPT !.columns =
                      [i \in 1..Len(raw.columns) |-> CleanColName(raw.columns[i])]]
    IN  SetColumn(SetColumn(SetColumn(cleaned, C_crawl_id, "int64"),
                            C_source_file, "str"),
                  C_processed_at, "datetime")

---------------------------------------------------------------------------
(* DatabaseManager.ensure_table_for_dataframe *)

\* A DataFrame as the code sees it: its column labels, the kind of each
\* value of its first row (all missing when the frame is empty), its length.
SampleKinds(df) ==
    [i \in 1..Len(df.columns) |-> IF df.nrows = 0 THEN "null" ELSE df.kinds[i]]

\* A column definition of the statement text: name, type, DEFAULT clause
ColDef(n, t, d) ==
    [name |-> n, type |-> t, default |-> d]

metadata_columns ==
    << ColDef(C_crawl_id, "INTEGER", "none"),
       ColDef(C_processed_at, "TIMESTAMP", "CURRENT_TIMESTAMP"),
       ColDef(C_source_file, "TEXT", "none") >>

\* col.replace(' ', '_').replace('-', '_').lower()
EnsureColName(col) ==
    Lower(Replace(Replace(col, " ", "_"), "-", "_"))

ColumnDefs(df) ==
    [i \in 1..Len(df.columns) |->
        ColDef(EnsureColName(df.columns[i]),
               get_column_type(df.columns[i], SampleKinds(df)[i]), "none")]
    \o metadata_columns

\* The frames the model builds, and their column definitions
Frames ==
    {RawFrame(b) : b \in ParsableBatches \cup CollidingBatches \cup ParenBatches}
    \cup {TaggedFrame(b) : b \in ParsableBatches \cup CollidingBatches \cup ParenBatches}

ColumnDefsOf ==
    [df \in Frames |-> ColumnDefs(df)]

ColNames(cols) ==
    {c.name : c \in cols}

HasDuplicates(q) ==
    \E i, j \in 1..Len(q) : i # j /\ q[i] = q[j]

\* The loop "for col_def in columns": an ALTER is issued for every
\* definition whose name is not in the snapshot current_columns; SQLite
\* rejects it (OperationalError, caught and logged) when the table is
\* missing, the live table already has the name, the definition has a
\* non-constant default (DEFAULT CURRENT_TIMESTAMP), or the name, which the
\* statement holds unquoted, is no identifier (syntax error).
RECURSIVE AddMissing(_, _, _, _, _)
AddMissing(defs, current_columns, exists, live, alters) ==
    IF defs = <<>> THEN [live |-> live, alters |-> alters]
    ELSE LET d == Head(defs)
         IN  IF d.name \notin current_columns
             THEN IF /\ exists
                     /\ IsIdentifier(d.name)
                     /\ d.name \notin ColNames(live)
                     /\ d.default = "none"
                  THEN AddMissing(Tail(defs), current_columns, exists,
                                  live \cup {Col(d.name, d.type)}, alters + 1)
                  ELSE AddMissing(Tail(defs), current_columns, exists,
                                  live, alters + 1)
             ELSE AddMissing(Tail(defs), current_columns, exists, live, alters)

\* ensure_table_for_dataframe as it would be with DROP TABLE IF EXISTS
\* before the CREATE: a table the cache does not know is rebuilt from the
\* frame, losing the columns the frame lacks.
ensure_table_dropping(cache, tbls, table_name, df) ==
    LET columns == ColumnDefsOf[df]
        names == <<C_id>> \o [i \in 1..Len(columns) |-> columns[i].name]
    IN  IF table_name \in cache
        THEN LET exists == table_name \in DOMAIN tbls
                 live == IF exists THEN tbls[table_name] ELSE {}
                 r == AddMissing(columns, ColNames(live), exists, live, 0)
             IN  [outcome |-> "returned",
                  tables |-> IF exists THEN [tbls EXCEPT ![table_name] = r.live]
                             ELSE tbls,
                  alters |-> r.alters, created |-> FALSE]
        ELSE IF HasDuplicates(names) \/ \E d \in Range(columns) : ~IsIdentifier(d.name)
             THEN [outcome |-> "OperationalError", tables |-> tbls,
                   alters |-> 0, created |-> FALSE]
             ELSE [outcome |-> "returned",
                   tables |-> [t \in DOMAIN tbls \cup {table_name} |->
                                 IF t = table_name
                                 THEN {Col(C_id, "INTEGER")} \cup
                                      {Col(d.name, d.type) : d \in Range(columns)}
                                 ELSE tbls[t]],
                   alters |-> 0, created |-> TRUE]

\* Result of the call on store schema tbls with the instance's cache
\* self.table_schemas: the new store schema, how the call ended, the
\* number of ALTER statements issued and whether CREATE TABLE succeeded.
ensure_table_for_dataframe(cache, tbls, table_name, df) ==
    LET columns == ColumnDefsOf[df]
        names == <<C_id>> \o [i \in 1..Len(columns) |-> columns[i].name]
    IN  IF table_name \in cache
        THEN LET exists == table_name \in DOMAIN tbls
                 live == IF exists THEN tbls[table_name] ELSE {}
                 r == AddMissing(columns, ColNames(live), exists, live, 0)
             IN  [outcome |-> "returned",
                  tables |-> IF exists THEN [tbls EXCEPT ![table_name] = r.live]
                             ELSE tbls,
                  alters |-> r.alters, created |-> FALSE]
        ELSE IF \/ table_name \in DOMAIN tbls
                \/ HasDuplicates(names)
                \/ \E d \in Range(columns) : ~IsIdentifier(d.name)
             THEN [outcome |-> "OperationalError", tables |-> tbls,
                   alters |-> 0, created |-> FALSE]
             ELSE [outcome |-> "returned",
                   tables |-> [t \in DOMAIN tbls \cup {table_name} |->
                                 IF t = table_name
                                 THEN {Col(C_id, "INTEGER")} \cup
                                      {Col(d.name, d.type) : d \in Range(columns)}
                                 ELSE tbls[t]],
                   alters |-> 0, created |-> TRUE]

---------------------------------------------------------------------------
(* Appending a frame to a table. *)

C_domain ==
    <<"d","o","m","a","i","n">>

\* df.to_sql(table, conn, if_exists='append', index=False) on an existing
\* table: an empty frame inserts nothing; otherwise every label must name a
\* column of the table (SQLite matches names case-insensitively) and every
\* NOT NULL column without default (crawl_results.domain) must be supplied.
to_sql_error(tbls, table_name, df) ==
    IF df.nrows = 0 THEN "none"
    ELSE LET have == {Lower(n) : n \in ColNames(tbls[table_name])}
             given == {Lower(n) : n \in Range(df.columns)}
         IN  IF ~(given \subseteq have) THEN "OperationalError"
             ELSE IF C_domain \in have /\ C_domain \notin given THEN "IntegrityError"
             ELSE "none"

---------------------------------------------------------------------------
(* State. *)

VARIABLES
    tables,           \* the store's schema: existing table name -> its columns
    rows,             \* result rows of each table that holds result rows
    crawl_metadata,   \* rows of crawl_metadata: id -> record
    maintenance_log,  \* rows of maintenance_log: id -> record
    table_schemas,    \* self.table_schemas of each DatabaseManager (its keys)
    dmUp,             \* the DatabaseManager objects __init__ has run on
    wrapper,          \* the ScreamingFrogWrapper: constructed, position in run_crawl, locals
    outdir,           \* CSV files present in the output directory
    now,              \* the clock, in days
    last              \* the last call made and how it ended

vars ==
    <<tables, rows, crawl_metadata, maintenance_log, table_schemas, dmUp,
      wrapper, outdir, now, last>>

MaxDay ==
    1

\* None, and the value of a NULL crawl_id
NoId ==
    0

\* the value of a NULL source_file
NoFile ==
    <<>>

\* the value of a NULL completion_time
NoTime ==
    -1

RowTables ==
    ResultTables \cup {T_crawl_results}

NoCall ==
    [op |-> "none", who |-> "none", outcome |-> "none",
     existed |-> FALSE, missing |-> 0, alters |-> 0, created |-> FALSE,
     crawl |-> NoId, nrows |-> 0, ret |-> -1, appended |-> 0, errors |-> 0,
     days |-> 0, dupl |-> FALSE, arg |-> <<>>, value |-> <<>>,
     gone |-> {}]

Init ==
    /\ tables = << >>
    /\ rows = [t \in RowTables |-> EmptyBag]
    /\ crawl_metadata = << >>
    /\ maintenance_log = << >>
    /\ table_schemas = [d \in DMs |-> {}]
    /\ dmUp = {}
    /\ wrapper = [up |-> FALSE, pc |-> "idle", crawl_id |-> NoId]
    /\ outdir = {}
    /\ now = 0
    /\ last = NoCall

\* CREATE TABLE IF NOT EXISTS name (cols)
CreateIfNotExists(tbls, name, cols) ==
    IF name \in DOMAIN tbls THEN tbls
    ELSE [t \in DOMAIN tbls \cup {name} |-> IF t = name THEN cols ELSE tbls[t]]

TotalRows ==
    LET RECURSIVE Sum(_)
        Sum(S) == IF S = {} THEN 0
                  ELSE LET t == CHOOSE x \in S : TRUE
                       IN  BagCardinality(rows[t]) + Sum(S \ {t})
    IN  Sum(RowTables)

\* n copies of row r
Copies(r, n) ==
    IF n = 0 THEN EmptyBag ELSE [x \in {r} |-> n]

---------------------------------------------------------------------------
(* DatabaseManager *)

\* DatabaseManager(): __init__ sets the fields and calls setup_database,
\* which connects, creates crawl_metadata and then calls column_exists, a
\* name that is defined in the class body only: the lookup raises NameError,
\* which "except sqlite3.Error" does not catch. The methods below are entry
\* points on the object __init__ has run on, with the fields it has assigned.
NewDatabaseManager(dm) ==
    /\ dmUp' = dmUp \cup {dm}
    /\ table_schemas' = [table_schemas EXCEPT ![dm] = {}]
    /\ tables' = CreateIfNotExists(tables, T_crawl_metadata, CrawlMetadataColumnsDM)
    /\ last' = [NoCall EXCEPT !.op = "DatabaseManager", !.outcome = "NameError"]
    /\ UNCHANGED <<rows, crawl_metadata, maintenance_log, wrapper, outdir, now>>

SchemaVersionColumns ==
    { Col(<<"v","e","r","s","i","o","n">>, "INTEGER"),
      Col(<<"u","p","d","a","t","e","d","_","a","t">>, "TIMESTAMP") }

TableSchemasColumns ==
    { Col(<<"t","a","b","l","e","_","n","a","m","e">>, "TEXT"),
      Col(<<"c","o","l","u","m","n","s">>, "JSON"),
      Col(<<"c","r","e","a","t","e","d","_","a","t">>, "TIMESTAMP"),
      Col(<<"u","p","d","a","t","e","d","_","a","t">>, "TIMESTAMP") }

MaintenanceLogColumns ==
    { Col(C_id, "INTEGER"),
      Col(<<"o","p","e","r","a","t","i","o","n">>, "TEXT"),
      Col(<<"d","e","t","a","i","l","s">>, "TEXT"),
      Col(<<"s","t","a","r","t","e","d","_","a","t">>, "TIMESTAMP"),
      Col(<<"c","o","m","p","l","e","t","e","d","_","a","t">>, "TIMESTAMP"),
      Col(<<"s","t","a","t","u","s">>, "TEXT"),
      Col(<<"e","r","r","o","r","_","m","e","s","s","a","g","e">>, "TEXT") }

\* _create_base_tables: no caller in the code; an entry point of the class
CreateBaseTables(dm) ==
    /\ dm \in dmUp
    /\ tables' = CreateIfNotExists(
                   CreateIfNotExists(
                     CreateIfNotExists(tables, T_schema_version, SchemaVersionColumns),
                     T_table_schemas, TableSchemasColumns),
                   T_maintenance_log, MaintenanceLogColumns)
    /\ last' = [NoCall EXCEPT !.op = "_create_base_tables", !.outcome = "returned"]
    /\ UNCHANGED <<rows, crawl_metadata, maintenance_log, table_schemas, dmUp,
                   wrapper, outdir, now>>

\* _load_existing_schemas: no caller in the code; an entry point of the class.
\* It adds a key for every table of sqlite_master and removes none.
LoadExistingSchemas(dm) ==
    /\ dm \in dmUp
    /\ table_schemas' = [table_schemas EXCEPT ![dm] = @ \cup DOMAIN tables]
    /\ last' = [NoCall EXCEPT !.op = "_load_existing_schemas", !.outcome = "returned"]
    /\ UNCHANGED <<tables, rows, crawl_metadata, maintenance_log, dmUp,
                   wrapper, outdir, now>>

\* Number of requested columns the live table lacks before the call
Missing(tbls, table_name, df) ==
    IF table_name \in DOMAIN tbls
    THEN Cardinality({d.name : d \in Range(ColumnDefsOf[df])} \ ColNames(tbls[table_name]))
    ELSE Cardinality({d.name : d \in Range(ColumnDefsOf[df])})

\* Whether two fields of the batch got the same column name in the list of
\* definitions built from df
FieldNamesRepeat(b, df) ==
    HasDuplicates([i \in 1..Len(b.columns) |-> ColumnDefsOf[df][i].name])

\* ensure_table_for_dataframe(table_name, df) called on its own
EnsureTable(dm, table_name, b) ==
    /\ dm \in dmUp
    /\ b.parsable
    /\ LET df == RawFrame(b)
           r == ensure_table_for_dataframe(table_schemas[dm], tables, table_name, df)
       IN  /\ tables' = r.tables
           /\ last' = [NoCall EXCEPT !.op = "ensure_table", !.who = dm, !.outcome = r.outcome, 
                          !.existed = (table_name \in DOMAIN tables),
                          !.missing = Missing(tables, table_name, df),
                          !.alters = r.alters, !.created = r.created,
                          !.dupl = FieldNamesRepeat(b, df)]
    /\ UNCHANGED <<rows, crawl_metadata, maintenance_log, table_schemas, dmUp,
                   wrapper, outdir, now>>

\* process_screaming_frog_csv(csv_file, crawl_id): every exception is logged
\* and re-raised.
ProcessCsv(dm, csv_file, crawl_id, b) ==
    /\ dm \in dmUp
    /\ TotalRows + b.nrows <= MaxRows
    /\ LET table_name == determine_table_name(csv_file)
           df == TaggedFrame(b)
           r == ensure_table_for_dataframe(table_schemas[dm], tables, table_name, df)
           call == [NoCall EXCEPT !.op = "process_csv", !.who = dm, !.crawl = crawl_id,
                       !.existed = (table_name \in DOMAIN tables),
                       !.nrows = b.nrows]
       IN  IF ~b.parsable
           THEN /\ last' = [call EXCEPT !.outcome = "ParserError", !.errors = 1]
                /\ UNCHANGED <<tables, rows>>
           ELSE IF r.outcome # "returned"
           THEN /\ last' = [call EXCEPT !.outcome = r.outcome, !.errors = 1,
                               !.missing = Missing(tables, table_name, df),
                               !.dupl = FieldNamesRepeat(b, df)]
                /\ UNCHANGED <<tables, rows>>
           ELSE LET err == to_sql_error(r.tables, table_name, df)
                    done == [call EXCEPT !.missing = Missing(tables, table_name, df),
                                !.alters = r.alters, !.created = r.created,
                                !.dupl = FieldNamesRepeat(b, df)]
                IN  /\ tables' = r.tables
                    /\ IF err # "none"
                       THEN /\ last' = [done EXCEPT !.outcome = err, !.errors = 1]
                            /\ UNCHANGED rows
                       ELSE /\ rows' = [rows EXCEPT ![table_name] = @ (+)
                                          Copies([crawl_id |-> crawl_id,
                                                  source_file |-> csv_file,
                                                  at |-> now,
                                                  for |-> crawl_id,
                                                  batch |-> csv_file], b.nrows)]
                            /\ last' = [done EXCEPT !.outcome = "returned",
                                           !.ret = b.nrows, !.appended = b.nrows]
    /\ UNCHANGED <<crawl_metadata, maintenance_log, table_schemas, dmUp,
                   wrapper, outdir, now>>

---------------------------------------------------------------------------
(* DatabaseManager: maintenance *)

Max(S) ==
    CHOOSE x \in S : \A y \in S : y <= x

\* cursor.lastrowid of an INSERT into a table with INTEGER PRIMARY KEY id
NewId(f) ==
    IF DOMAIN f = {} THEN 1 ELSE Max(DOMAIN f) + 1

\* f with the entries of the ids in gone removed
Without(f, gone) ==
    [i \in DOMAIN f \ gone |-> f[i]]

\* f with entry i set to r
With(f, i, r) ==
    [j \in DOMAIN f \cup {i} |-> IF j = i THEN r ELSE f[j]]

\* optimize_database: BEGIN and the INSERT into maintenance_log open a
\* transaction. Without the table the INSERT raises, and the handler, after
\* the rollback, reads log_id before any assignment: UnboundLocalError
\* leaves the method. With the table, VACUUM is refused inside a
\* transaction; the handler rolls the INSERT back, and its UPDATE for
\* log_id then matches no row.
OptimizeDatabase(dm) ==
    /\ dm \in dmUp
    /\ last' = [NoCall EXCEPT !.op = "optimize", !.errors = 1,
                   !.outcome = IF T_maintenance_log \in DOMAIN tables
                               THEN "returned" ELSE "UnboundLocalError"]
    /\ UNCHANGED <<tables, rows, crawl_metadata, maintenance_log, table_schemas,
                   dmUp, wrapper, outdir, now>>

tables_to_clean ==
    <<T_crawl_results, T_crawl_metadata>>

\* The tables the loop of cleanup_old_records issues a DELETE for
Cleaned(cache) ==
    {t \in Range(tables_to_clean) : t \in cache}

\* DELETE FROM t WHERE crawl_date < ? is refused for a table without the column
DeleteRefused(tbls, t) ==
    \/ t \notin DOMAIN tbls
    \/ C_crawl_date \notin ColNames(tbls[t])

Retentions ==
    0..MaxDay

\* cleanup_old_records with the try/except around each DELETE, as the ALTER
\* loop of ensure_table_for_dataframe has it: a refused DELETE is logged,
\* the other one is done and committed, and the entry is set to 'failed'.
CleanupOldRecordsPerTable(dm, days_to_keep) ==
    /\ dm \in dmUp
    /\ Cardinality(DOMAIN maintenance_log) < MaxLog
    /\ LET cutoff_date == now - days_to_keep
           todo == {t \in Cleaned(table_schemas[dm]) : ~DeleteRefused(tables, t)}
           refused == \E t \in Cleaned(table_schemas[dm]) : DeleteRefused(tables, t)
           call == [NoCall EXCEPT !.op = "cleanup", !.days = days_to_keep]
       IN  IF T_maintenance_log \notin DOMAIN tables
           THEN /\ last' = [call EXCEPT !.outcome = "UnboundLocalError"]
                /\ UNCHANGED <<rows, crawl_metadata, maintenance_log>>
           ELSE LET old == IF T_crawl_metadata \in todo
                           THEN {i \in DOMAIN crawl_metadata :
                                    crawl_metadata[i].crawl_date < cutoff_date}
                           ELSE {}
                    kept == IF T_crawl_results \in todo
                            THEN [r \in {x \in BagToSet(rows[T_crawl_results]) :
                                           ~(x.at < cutoff_date)} |->
                                     rows[T_crawl_results][r]]
                            ELSE rows[T_crawl_results]
                IN  /\ crawl_metadata' = Without(crawl_metadata, old)
                    /\ rows' = [rows EXCEPT ![T_crawl_results] = kept]
                    /\ maintenance_log' =
                         With(maintenance_log, NewId(maintenance_log),
                              [operation |-> "cleanup",
                               status |-> IF refused THEN "failed" ELSE "completed",
                               error_message |-> NULL, completed |-> TRUE])
                    /\ last' = [call EXCEPT !.outcome = "returned",
                                   !.ret = Cardinality(old), !.gone = old]
    /\ UNCHANGED <<tables, table_schemas, dmUp, wrapper, outdir, now>>

\* cleanup_old_records(days_to_keep)
CleanupOldRecords(dm, days_to_keep) ==
    /\ dm \in dmUp
    /\ Cardinality(DOMAIN maintenance_log) < MaxLog
    /\ LET cutoff_date == now - days_to_keep
           todo == Cleaned(table_schemas[dm])
           call == [NoCall EXCEPT !.op = "cleanup", !.days = days_to_keep]
       IN  IF T_maintenance_log \notin DOMAIN tables
           THEN /\ last' = [call EXCEPT !.outcome = "UnboundLocalError"]
                /\ UNCHANGED <<rows, crawl_metadata, maintenance_log>>
           ELSE IF \E t \in todo : DeleteRefused(tables, t)
           THEN \* rollback; the UPDATE of the rolled back log row matches nothing
                /\ last' = [call EXCEPT !.outcome = "returned"]
                /\ UNCHANGED <<rows, crawl_metadata, maintenance_log>>
           ELSE LET old == IF T_crawl_metadata \in todo
                           THEN {i \in DOMAIN crawl_metadata :
                                    crawl_metadata[i].crawl_date < cutoff_date}
                           ELSE {}
                    kept == IF T_crawl_results \in todo
                            THEN [r \in {x \in BagToSet(rows[T_crawl_results]) :
                                           ~(x.at < cutoff_date)} |->
                                     rows[T_crawl_results][r]]
                            ELSE rows[T_crawl_results]
                IN  /\ crawl_metadata' = Without(crawl_metadata, old)
                    /\ rows' = [rows EXCEPT ![T_crawl_results] = kept]
                    /\ maintenance_log' =
                         With(maintenance_log, NewId(maintenance_log),
                              [operation |-> "cleanup", status |-> "completed",
                               error_message |-> NULL, completed |-> TRUE])
                    /\ last' = [call EXCEPT !.outcome = "returned",
                                   !.ret = Cardinality(old), !.gone = old]
    /\ UNCHANGED <<tables, table_schemas, dmUp, wrapper, outdir, now>>

\* cleanup_old_records when the process is killed inside the transaction,
\* after a DELETE and before the commit: SQLite discards the transaction,
\* so neither the log row nor a deletion is stored, and the object is gone.
CleanupOldRecordsKilled(dm, days_to_keep) ==
    /\ dm \in dmUp
    /\ T_maintenance_log \in DOMAIN tables
    /\ Cleaned(table_schemas[dm]) # {}
    /\ \/ tables_to_clean[1] \notin table_schemas[dm]
       \/ ~DeleteRefused(tables, tables_to_clean[1])
    /\ dmUp' = dmUp \ {dm}
    /\ table_schemas' = [table_schemas EXCEPT ![dm] = {}]
    /\ last' = [NoCall EXCEPT !.op = "cleanup", !.days = days_to_keep,
                   !.outcome = "killed"]
    /\ UNCHANGED <<tables, rows, crawl_metadata, maintenance_log, wrapper, outdir, now>>

---------------------------------------------------------------------------
(* ScreamingFrogWrapper *)

\* ScreamingFrogWrapper(): _verify_screaming_frog_installation raises
\* EnvironmentError when the CLI is not in PATH; otherwise setup_database
\* creates crawl_metadata and crawl_results where they do not exist.
NewWrapper ==
    /\ wrapper.pc = "idle"
    /\ \/ /\ ~wrapper.up
          /\ last' = [NoCall EXCEPT !.op = "ScreamingFrogWrapper",
                                    !.outcome = "EnvironmentError"]
          /\ UNCHANGED <<tables, wrapper>>
       \/ /\ tables' = CreateIfNotExists(
                         CreateIfNotExists(tables, T_crawl_metadata, CrawlMetadataColumns),
                         T_crawl_results, CrawlResultsColumns)
          /\ wrapper' = [wrapper EXCEPT !.up = TRUE]
          /\ last' = [NoCall EXCEPT !.op = "ScreamingFrogWrapper",
                                    !.outcome = "returned"]
    /\ UNCHANGED <<rows, crawl_metadata, maintenance_log, table_schemas, dmUp,
                   outdir, now>>

\* The columns the INSERT of run_crawl names
InsertedColumns ==
    { C_url, C_crawl_date,
      <<"c","o","n","f","i","g","_","u","s","e","d">>,
      <<"c","r","a","w","l","_","s","t","a","t","u","s">>,
      <<"c","o","m","m","a","n","d","_","e","x","e","c","u","t","e","d">> }

Elapsed ==
    0..MaxElapsed

\* _update_crawl_failure without completion_time in its SET list
update_crawl_failure_no_time(cm, crawl_id, error_msg, completion_time) ==
    IF crawl_id # NoId /\ crawl_id \in DOMAIN cm
    THEN [cm EXCEPT ![crawl_id].crawl_status = "failed",
                    ![crawl_id].error_message = error_msg]
    ELSE cm

\* _update_crawl_failure with an UPDATE that has lost its WHERE clause
update_crawl_failure_all(cm, crawl_id, error_msg, completion_time) ==
    IF crawl_id # NoId
    THEN [i \in DOMAIN cm |->
            [cm[i] EXCEPT !.crawl_status = "failed",
                          !.completion_time = completion_time,
                          !.error_message = error_msg]]
    ELSE cm

\* _update_crawl_failure(crawl_id, error_msg, start_time): nothing for a
\* falsy crawl_id; otherwise an UPDATE ... WHERE id = ? (which matches no
\* row for an unknown id) and a commit.
update_crawl_failure(cm, crawl_id, error_msg, completion_time) ==
    IF crawl_id # NoId /\ crawl_id \in DOMAIN cm
    THEN [cm EXCEPT ![crawl_id].crawl_status = "failed",
                    ![crawl_id].completion_time = completion_time,
                    ![crawl_id].error_message = error_msg]
    ELSE cm

\* run_crawl, first part: build_crawl_command, then the INSERT of the
\* started record, the commit and lastrowid.
RunCrawlBegin ==
    /\ wrapper.up
    /\ wrapper.pc = "idle"
    /\ \/ \* build_crawl_command: the CLI is no longer in PATH
          /\ last' = [NoCall EXCEPT !.op = "run_crawl",
                                    !.outcome = "FileNotFoundError"]
          /\ UNCHANGED <<crawl_metadata, wrapper>>
       \/ \* the INSERT names a column the table lacks
          /\ ~(InsertedColumns \subseteq ColNames(tables[T_crawl_metadata]))
          /\ last' = [NoCall EXCEPT !.op = "run_crawl",
                                    !.outcome = "OperationalError"]
          /\ UNCHANGED <<crawl_metadata, wrapper>>
       \/ /\ InsertedColumns \subseteq ColNames(tables[T_crawl_metadata])
          /\ Cardinality(DOMAIN crawl_metadata) < MaxCrawls
          /\ LET crawl_id == NewId(crawl_metadata)
             IN  /\ crawl_metadata' =
                       With(crawl_metadata, crawl_id,
                            [crawl_status |-> "started", completion_time |-> NoTime,
                             error_message |-> NULL, crawl_date |-> now])
                 /\ wrapper' = [wrapper EXCEPT !.pc = "started", !.crawl_id = crawl_id]
                 /\ last' = [NoCall EXCEPT !.op = "run_crawl", !.outcome = "running",
                                           !.crawl = crawl_id]
    /\ UNCHANGED <<tables, rows, maintenance_log, table_schemas, dmUp, outdir, now>>

\* run_crawl with subprocess.run moved in front of the INSERT: the crawler
\* is also executed while no started record has been committed
RunCrawlExecBeforeInsert ==
    /\ wrapper.up
    /\ wrapper.pc \in {"idle", "started"}
    /\ \E written \in SUBSET Files :
         /\ outdir' = outdir \cup written
         /\ \/ /\ wrapper' = [wrapper EXCEPT !.pc = "crawled"]
               /\ UNCHANGED <<crawl_metadata, last>>
            \/ /\ \E t \in Elapsed :
                    crawl_metadata' =
                      update_crawl_failure(crawl_metadata, wrapper.crawl_id,
                                           "CalledProcessError", t)
               /\ wrapper' = [wrapper EXCEPT !.pc = "idle", !.crawl_id = NoId]
               /\ last' = [NoCall EXCEPT !.op = "run_crawl",
                                         !.outcome = "CalledProcessError",
                                         !.crawl = wrapper.crawl_id]
    /\ UNCHANGED <<tables, rows, maintenance_log, table_schemas, dmUp, now>>

\* run_crawl, second part: subprocess.run(cmd, check=True). The crawler
\* writes CSV files below the output directory.
RunCrawlExec ==
    /\ wrapper.pc = "started"
    /\ \E written \in SUBSET Files :
         /\ outdir' = outdir \cup written
         /\ \/ \* exit code 0
               /\ wrapper' = [wrapper EXCEPT !.pc = "crawled"]
               /\ UNCHANGED <<crawl_metadata, last>>
            \/ \* CalledProcessError: _update_crawl_failure, then raise
               /\ \E t \in Elapsed :
                    crawl_metadata' =
                      update_crawl_failure(crawl_metadata, wrapper.crawl_id,
                                           "CalledProcessError", t)
               /\ wrapper' = [wrapper EXCEPT !.pc = "idle", !.crawl_id = NoId]
               /\ last' = [NoCall EXCEPT !.op = "run_crawl",
                                         !.outcome = "CalledProcessError",
                                         !.crawl = wrapper.crawl_id]
    /\ UNCHANGED <<tables, rows, maintenance_log, table_schemas, dmUp, now>>

dot_csv ==
    <<".","c","s","v">>

\* process_crawl_results(crawl_id, output_files) where every element of
\* output_files is a str and the batch is the content of every file. Per
\* file: skipped unless the name ends with '.csv'; read_csv and to_sql into
\* crawl_results inside a try whose handler logs and goes on to the next
\* file. The rows are appended as read: nothing sets crawl_id or a source.
RECURSIVE process_crawl_results(_, _, _, _, _, _)
process_crawl_results(tbls, result_rows, crawl_id, output_files, b, day) ==
    IF output_files = <<>> THEN result_rows
    ELSE LET file == Head(output_files)
             stored == /\ EndsWith(file, dot_csv)
                       /\ b.parsable
                       /\ to_sql_error(tbls, T_crawl_results, RawFrame(b)) = "none"
             after == IF stored
                      THEN result_rows (+) Copies([crawl_id |-> NoId,
                                                   source_file |-> NoFile,
                                                   at |-> day,
                                                   for |-> crawl_id,
                                                   batch |-> file], b.nrows)
                      ELSE result_rows
         IN  process_crawl_results(tbls, after, crawl_id, Tail(output_files), b, day)

\* The files of the list whose ingestion failed inside the try
IngestFailures(tbls, output_files, b) ==
    Cardinality({i \in 1..Len(output_files) :
        /\ EndsWith(output_files[i], dot_csv)
        /\ ~(b.parsable /\ to_sql_error(tbls, T_crawl_results, RawFrame(b)) = "none")})

\* run_crawl, last part: the glob, process_crawl_results and the end of
\* the run. An empty glob raises Exception. Otherwise output_files holds
\* Path objects, and process_crawl_results evaluates file.endswith for the
\* first of them, outside its try: AttributeError, which run_crawl handles
\* like every Exception (_update_crawl_failure, then raise). The statements
\* after the call (the UPDATE to 'completed') are therefore never reached.
RunCrawlProcess ==
    /\ wrapper.pc = "crawled"
    /\ \E t \in Elapsed :
         crawl_metadata' =
           update_crawl_failure(crawl_metadata, wrapper.crawl_id,
                                IF outdir = {} THEN "Exception" ELSE "AttributeError", t)
    /\ wrapper' = [wrapper EXCEPT !.pc = "idle", !.crawl_id = NoId]
    /\ last' = [NoCall EXCEPT !.op = "run_crawl",
                   !.outcome = IF outdir = {} THEN "Exception" ELSE "AttributeError",
                   !.crawl = wrapper.crawl_id]
    /\ UNCHANGED <<tables, rows, maintenance_log, table_schemas, dmUp, outdir, now>>

\* Values of a crawl_id argument: None, the ids the table can hold, one more
CrawlIds ==
    0..(MaxCrawls + 1)

\* Crawl ids ingestion is called for
IngestIds ==
    1..MaxCrawls

\* _update_crawl_failure called on its own
UpdateCrawlFailure(crawl_id, t) ==
    /\ wrapper.up
    /\ wrapper.pc = "idle"
    /\ crawl_metadata' = update_crawl_failure(crawl_metadata, crawl_id, "error", t)
    /\ last' = [NoCall EXCEPT !.op = "_update_crawl_failure",
                              !.outcome = "returned", !.crawl = crawl_id]
    /\ UNCHANGED <<tables, rows, maintenance_log, table_schemas, dmUp, wrapper,
                   outdir, now>>

F_xlsx ==
    <<"c",".","x","l","s","x">>

\* process_crawl_results called on its own with file names
ProcessCrawlResults(crawl_id, output_files, b) ==
    /\ wrapper.up
    /\ wrapper.pc = "idle"
    /\ LET after == process_crawl_results(tables, rows[T_crawl_results], crawl_id,
                                          output_files, b, now)
           n == BagCardinality(after) - BagCardinality(rows[T_crawl_results])
       IN  /\ TotalRows + n <= MaxRows
           /\ rows' = [rows EXCEPT ![T_crawl_results] = after]
           /\ last' = [NoCall EXCEPT !.op = "process_crawl_results",
                          !.outcome = "returned", !.crawl = crawl_id,
                          !.nrows = b.nrows, !.appended = n,
                          !.errors = IngestFailures(tables, output_files, b)]
    /\ UNCHANGED <<tables, crawl_metadata, maintenance_log, table_schemas, dmUp,
                   wrapper, outdir, now>>

Tick ==
    /\ now < MaxDay
    /\ now' = now + 1
    /\ UNCHANGED <<tables, rows, crawl_metadata, maintenance_log, table_schemas,
                   dmUp, wrapper, outdir, last>>

---------------------------------------------------------------------------
(* src/sf_help_to_db_cols.py: the script that prepares crawl_results *)

Digits ==
    <<"0","1","2","3","4","5","6","7","8","9">>

\* The characters [A-Za-z0-9_] in code point order
WordChars ==
    Digits \o UpperAlpha \o <<"_">> \o LowerAlpha

Code(c) ==
    CHOOSE i \in 1..Len(WordChars) : WordChars[i] = c

\* a < b for two str of word characters
RECURSIVE StrLess(_, _)
StrLess(a, b) ==
    IF b = <<>> THEN FALSE
    ELSE IF a = <<>> THEN TRUE
    ELSE IF Head(a) = Head(b) THEN StrLess(Tail(a), Tail(b))
    ELSE Code(Head(a)) < Code(Head(b))

RECURSIVE LStripU(_)
LStripU(s) ==
    IF s # <<>> /\ Head(s) = "_" THEN LStripU(Tail(s)) ELSE s

RECURSIVE RStripU(_)
RStripU(s) ==
    IF s # <<>> /\ s[Len(s)] = "_" THEN RStripU(SubSeq(s, 1, Len(s) - 1)) ELSE s

\* re.sub(r"[^A-Za-z0-9_]", "_", line).strip("_")
cleaned_col(line) ==
    RStripU(LStripU([i \in 1..Len(line) |->
                       IF line[i] \in Range(WordChars) THEN line[i] ELSE "_"]))

\* Lines of the CLI's help output
HelpLines ==
    { <<"U","R","L">>, <<" ","D","o","m","a","i","n",":"," ">>,
      <<"=","=","=","=","="," ","x">> }

\* extract_columns: the sorted cleaned names of the lines that are kept
extract_columns(lines) ==
    LET kept == {Strip(l) : l \in lines}
        names == {cleaned_col(l) : l \in {k \in kept :
                     /\ k # <<>>
                     /\ ~Contains(k, <<"I","N","F","O">>)
                     /\ ~Contains(k, <<"=","=","=","=","=">>)
                     /\ ~Contains(k, <<"U","s","e","r"," ","L","o","c","a","l","e">>)}}
        valid == {n \in names : n # <<>> /\ Head(n) \notin Range(Digits)}
        RECURSIVE Sorted(_)
        Sorted(S) == IF S = {} THEN <<>>
                     ELSE LET m == CHOOSE x \in S : \A y \in S \ {x} : StrLess(x, y)
                          IN  <<m>> \o Sorted(S \ {m})
    IN  Sorted(valid)

\* CREATE TABLE IF NOT EXISTS crawl_results of create_table_if_not_exists
ScriptResultsColumns ==
    { Col(C_id, "INTEGER"), Col(C_domain, "TEXT"), Col(C_crawl_date, "TIMESTAMP") }

\* The loop of ensure_columns_exist: an ALTER for every name that is not in
\* existing_columns (compared as Python strings); SQLite compares column
\* names without regard to case and refuses a duplicate, which ends the
\* script with the columns added so far in place.
RECURSIVE AddColumns(_, _, _)
AddColumns(new_columns, existing_columns, live) ==
    IF new_columns = <<>> THEN [live |-> live, outcome |-> "returned"]
    ELSE LET column == Head(new_columns)
         IN  IF column \in existing_columns
             THEN AddColumns(Tail(new_columns), existing_columns, live)
             ELSE IF Lower(column) \in {Lower(n) : n \in ColNames(live)}
             THEN [live |-> live, outcome |-> "OperationalError"]
             ELSE AddColumns(Tail(new_columns), existing_columns,
                             live \cup {Col(column, "TEXT")})

\* ensure_columns_exist, run when the script is run
EnsureColumnsExist(lines) ==
    /\ LET created == CreateIfNotExists(tables, T_crawl_results, ScriptResultsColumns)
           live == created[T_crawl_results]
           r == AddColumns(extract_columns(lines), ColNames(live), live)
       IN  /\ tables' = [created EXCEPT ![T_crawl_results] = r.live]
           /\ last' = [NoCall EXCEPT !.op = "ensure_columns_exist",
                                     !.outcome = r.outcome]
    /\ UNCHANGED <<rows, crawl_metadata, maintenance_log, table_schemas, dmUp,
                   wrapper, outdir, now>>

---------------------------------------------------------------------------
(* The specification. *)

\* Lists of file names handed to process_crawl_results
FileLists ==
    { <<f>> : f \in Files } \cup { <<F_xlsx, f>> : f \in Files }

Next ==
    \/ \E dm \in DMs : NewDatabaseManager(dm)
    \/ \E dm \in DMs : CreateBaseTables(dm)
    \/ \E dm \in DMs : LoadExistingSchemas(dm)
    \/ \E dm \in DMs, t \in ResultTables, b \in Batches : EnsureTable(dm, t, b)
    \/ \E dm \in DMs, f \in Files, c \in IngestIds, b \in Batches : ProcessCsv(dm, f, c, b)
    \/ \E dm \in DMs : OptimizeDatabase(dm)
    \/ \E dm \in DMs, d \in Retentions : CleanupOldRecords(dm, d)
    \/ NewWrapper
    \/ RunCrawlBegin
    \/ RunCrawlExec
    \/ RunCrawlProcess
    \/ \E c \in CrawlIds, t \in Elapsed : UpdateCrawlFailure(c, t)
    \/ \E c \in IngestIds, fl \in FileLists, b \in Batches : ProcessCrawlResults(c, fl, b)
    \/ \E lines \in SUBSET HelpLines : EnsureColumnsExist(lines)
    \/ Tick

Spec ==
    Init /\ [][Next]_vars

\* The schema registry and the ingestion pipeline on their own: the calls
\* of one DatabaseManager, ingesting exports of one file for crawl 1.
NextSchema ==
    \/ NewDatabaseManager("A")
    \/ CreateBaseTables("A")
    \/ LoadExistingSchemas("A")
    \/ \E t \in ResultTables, b \in Batches : EnsureTable("A", t, b)
    \/ \E b \in Batches : ProcessCsv("A", F_a_b, 1, b)
    \/ OptimizeDatabase("A")
    \/ \E d \in Retentions : CleanupOldRecords("A", d)

SpecSchema ==
    Init /\ [][NextSchema]_vars

\* Two DatabaseManager instances on the one store: construction (also a
\* restart of the process), cache loading and reconciliation.
NextShared ==
    \/ \E dm \in DMs : NewDatabaseManager(dm)
    \/ \E dm \in DMs : LoadExistingSchemas(dm)
    \/ \E dm \in DMs, t \in ResultTables, b \in Batches : EnsureTable(dm, t, b)

SpecShared ==
    Init /\ [][NextShared]_vars

\* The crawl ledger on its own: the calls of ScreamingFrogWrapper.
NextLedger ==
    \/ NewWrapper
    \/ RunCrawlBegin
    \/ RunCrawlExec
    \/ RunCrawlProcess
    \/ \E c \in CrawlIds, t \in Elapsed : UpdateCrawlFailure(c, t)
    \/ \E c \in IngestIds, fl \in FileLists, b \in Batches : ProcessCrawlResults(c, fl, b)

SpecLedger ==
    Init /\ [][NextLedger]_vars

\* The runs of one ScreamingFrogWrapper and the calls that close a record.
NextRun ==
    \/ NewWrapper
    \/ RunCrawlBegin
    \/ RunCrawlExec
    \/ RunCrawlProcess
    \/ \E c \in CrawlIds, t \in Elapsed : UpdateCrawlFailure(c, t)

SpecRun ==
    Init /\ [][NextRun]_vars

\* The export of one crawl: the full header line and one row of values
FullBatch ==
    [parsable |-> TRUE, columns |-> HeaderLine, nrows |-> 1, nulls |-> FALSE]

\* Retention: the script has prepared crawl_results, a wrapper runs crawls,
\* one DatabaseManager ingests the export of a crawl and cleans up, and the
\* clock advances.
NextRetention ==
    \/ EnsureColumnsExist(HelpLines)
    \/ NewWrapper
    \/ RunCrawlBegin
    \/ RunCrawlExec
    \/ RunCrawlProcess
    \/ NewDatabaseManager("A")
    \/ CreateBaseTables("A")
    \/ LoadExistingSchemas("A")
    \/ \E t \in ResultTables : EnsureTable("A", t, FullBatch)
    \/ \E c \in IngestIds : ProcessCsv("A", F_a_b, c, FullBatch)
    \/ \E d \in Retentions : CleanupOldRecords("A", d)
    \/ Tick

SpecRetention ==
    Init /\ [][NextRetention]_vars

\* An export that cannot be parsed
BadBatch ==
    [parsable |-> FALSE, columns |-> <<>>, nrows |-> 0, nulls |-> TRUE]

\* An export with the one field crawl_results has a column for
UrlBatch ==
    [parsable |-> TRUE, columns |-> <<H_URL>>, nrows |-> 1, nulls |-> FALSE]

\* Failures next to stored data: a wrapper creates its tables, stores
\* exports and runs crawls that the crawler fails; one DatabaseManager
\* ingests exports, optimizes and cleans up; and the clock advances.
NextFailures ==
    \/ NewWrapper
    \/ RunCrawlBegin
    \/ RunCrawlExec
    \/ ProcessCrawlResults(1, <<F_a_b>>, UrlBatch)
    \/ NewDatabaseManager("A")
    \/ CreateBaseTables("A")
    \/ LoadExistingSchemas("A")
    \/ ProcessCsv("A", F_a_b, 1, BadBatch)
    \/ OptimizeDatabase("A")
    \/ CleanupOldRecords("A", 0)
    \/ Tick

SpecFailures ==
    Init /\ [][NextFailures]_vars

\* Cleanup next to stored data: the script may have prepared crawl_results,
\* a wrapper stores an export and begins a crawl, one DatabaseManager cleans
\* up, to the end or until it is killed, and the clock advances.
NextCleanup ==
    \/ EnsureColumnsExist(HelpLines)
    \/ NewWrapper
    \/ ProcessCrawlResults(1, <<F_a_b>>, UrlBatch)
    \/ RunCrawlBegin
    \/ NewDatabaseManager("A")
    \/ CreateBaseTables("A")
    \/ LoadExistingSchemas("A")
    \/ \E d \in Retentions : CleanupOldRecords("A", d)
    \/ \E d \in Retentions : CleanupOldRecordsKilled("A", d)
    \/ Tick

SpecCleanup ==
    Init /\ [][NextCleanup]_vars

\* File names handed to the namer: directory, beginning, body, extension
FileDirs ==
    { <<>>, <<"o","/">> }

\* Beginnings that are the prefix once cleaned, and beginnings that are not
PrefixBeginnings ==
    { <<"s","f","_">>, <<"S","F","_">>, <<"s","f","-">>, <<"S","f"," ">> }

OtherBeginnings ==
    { <<>>, <<" ">>, <<"s","f">> }

FileBodies ==
    { <<"a","-","b">>, <<"A"," ","B">>, <<"a",".","b">>, <<"x">>,
      <<"i","n","t","e","r","n","a","l","_","a","l","l">> }

FileExtensions ==
    { <<>>, <<".","c","s","v">> }

PrefixedFiles ==
    {d \o p \o b \o e : d \in FileDirs, p \in PrefixBeginnings,
                         b \in FileBodies, e \in FileExtensions}

InputFiles ==
    PrefixedFiles \cup
    {d \o p \o b \o e : d \in FileDirs, p \in OtherBeginnings,
                         b \in FileBodies \cup {<<>>}, e \in {<<".","c","s","v">>}}

\* The names the namer returns for the input files
DerivedNames ==
    {determine_table_name(f) : f \in InputFiles}

\* _determine_table_name(csv_file, df) called on its own; df is not read
DetermineTableName(dm, csv_file) ==
    /\ dm \in dmUp
    /\ last' = [NoCall EXCEPT !.op = "determine_table_name", !.who = dm,
                   !.outcome = "returned", !.arg = <<csv_file>>,
                   !.value = determine_table_name(csv_file)]
    /\ UNCHANGED <<tables, rows, crawl_metadata, maintenance_log, table_schemas,
                   dmUp, wrapper, outdir, now>>

\* Naming of files and of the names already derived
NextNamer ==
    \/ NewDatabaseManager("A")
    \/ \E f \in InputFiles \cup DerivedNames : DetermineTableName("A", f)

SpecNamer ==
    Init /\ [][NextNamer]_vars

\* Column names handed to the inferencer: a beginning and an ending
Stems ==
    { <<>>, <<"x">>, <<"U","R","L">>, <<"l","o","a","d","_","t","i","m","e">> }

\* The numeric suffixes in lower case, in upper case and in mixed case
NumericEndings ==
    { <<"_","m","s">>, <<"_","b","y","t","e","s">>, <<"_","l","e","n","g","t","h">>,
      <<"_","s","i","z","e">>, <<"_","c","o","u","n","t">>,
      <<"_","n","u","m","b","e","r">>, <<"_","c","o","d","e">>,
      <<"_","M","S">>, <<"_","B","Y","T","E","S">>, <<"_","L","E","N","G","T","H">>,
      <<"_","S","I","Z","E">>, <<"_","C","O","U","N","T">>,
      <<"_","N","U","M","B","E","R">>, <<"_","C","O","D","E">>,
      <<"_","M","s">>, <<"_","C","o","d","e">>, <<"_","s","i","z","E">> }

\* Endings that are none of the numeric suffixes
OtherEndings ==
    { <<>>, <<"m","s">>, <<"_","m","s","x">>, <<"_","c","o","d","e","s">>,
      <<"_","d","a","t","e">>, <<"-","s","i","z","e">>,
      <<"d","a","t","e">>, <<"L","a","s","t"," ","M","o","d","i","f","i","e","d">> }

SuffixedNames ==
    {p \o e : p \in Stems, e \in NumericEndings}

InferNames ==
    SuffixedNames \cup {p \o e : p \in Stems, e \in OtherEndings}

\* get_column_type(column_name, sample_value) called on its own
GetColumnType(column_name, sample_kind) ==
    /\ last' = [NoCall EXCEPT !.op = "get_column_type",
                   !.arg = <<column_name, sample_kind>>,
                   !.outcome = get_column_type(column_name, sample_kind)]
    /\ UNCHANGED <<tables, rows, crawl_metadata, maintenance_log, table_schemas,
                   dmUp, wrapper, outdir, now>>

NextInfer ==
    \E n \in InferNames, k \in Kinds : GetColumnType(n, k)

SpecInfer ==
    Init /\ [][NextInfer]_vars

\* Batches whose fields collide once cleaned or are no identifiers, and a
\* batch of one other field
NameBatches ==
    CollidingBatches \cup ParenBatches \cup
    {b \in Batches : b.parsable /\ b.columns = <<H_ResponseTimeMs>>}

\* Reconciliation and ingestion of batches with colliding field names
NextNames ==
    \/ NewDatabaseManager("A")
    \/ LoadExistingSchemas("A")
    \/ \E t \in ResultTables, b \in NameBatches : EnsureTable("A", t, b)
    \/ \E b \in NameBatches : ProcessCsv("A", F_a_b, 1, b)

SpecNames ==
    Init /\ [][NextNames]_vars

---------------------------------------------------------------------------
(* The crawl ledger: claims C1, C8, C9, C10 *)

Terminal ==
    {"completed", "failed"}

\* C1: once the record of a crawl id has status completed or failed, no
\* later call changes its status, elapsed time or error detail (a second
\* complete or fail for the id is a no-op), and the only status changes
\* are started -> completed and started -> failed.
C1_TerminalIsFinal ==
    [][\A i \in DOMAIN crawl_metadata :
         i \in DOMAIN crawl_metadata' =>
           /\ crawl_metadata[i].crawl_status \in Terminal =>
                crawl_metadata'[i] = crawl_metadata[i]
           /\ crawl_metadata'[i].crawl_status # crawl_metadata[i].crawl_status =>
                /\ crawl_metadata[i].crawl_status = "started"
                /\ crawl_metadata'[i].crawl_status \in Terminal]_vars

\* C8: every stored result row carries the crawl id it was ingested for
\* and the source identifier of its batch, whichever call stored it, and
\* an ingest that returns reports the number of rows it appended.
C8_RowsTagged ==
    /\ \A t \in RowTables : \A r \in BagToSet(rows[t]) :
         r.crawl_id = r.for /\ r.source_file = r.batch
    /\ last.op = "process_csv" /\ last.outcome = "returned" =>
         last.ret = last.appended

\* C9: when the ingestion of a crawl's output fails, the call that ingests
\* does not return normally, and the record of that crawl, where there is
\* one, is failed with an error detail.
C9_IngestionFailureSurfaces ==
    last.op \in {"process_csv", "process_crawl_results"} /\ last.errors > 0 =>
        /\ last.outcome # "returned"
        /\ last.crawl \in DOMAIN crawl_metadata =>
             /\ crawl_metadata[last.crawl].crawl_status = "failed"
             /\ crawl_metadata[last.crawl].error_message # NULL

\* A run of run_crawl that has ended after the crawler exited with code 0
\* and left output files: the run that is due to be closed as completed.
RunDueCompleted ==
    /\ last.op = "run_crawl"
    /\ last.outcome \notin {"running", "FileNotFoundError", "OperationalError",
                            "CalledProcessError", "Exception"}

\* C10: records are created by begin only, with status started, and a run
\* that begins a record and goes on to complete it leaves the record with
\* status completed and an elapsed time.
C10_BeginThenComplete ==
    /\ \A i \in DOMAIN crawl_metadata :
         crawl_metadata[i].crawl_status \in {"started"} \cup Terminal
    /\ RunDueCompleted =>
         /\ last.crawl \in DOMAIN crawl_metadata
         /\ crawl_metadata[last.crawl].crawl_status = "completed"
         /\ crawl_metadata[last.crawl].completion_time # NoTime

---------------------------------------------------------------------------
(* The schema registry and the ingestion pipeline: claims C2 to C7 *)

\* C2: ensure_table called again with a column set the existing table
\* already has returns normally and issues no ALTER and no CREATE.
C2_EnsureIdempotent ==
    last.op = "ensure_table" /\ last.existed /\ last.missing = 0 =>
        /\ last.outcome = "returned"
        /\ last.alters = 0
        /\ ~last.created

\* C3: ensure_table called for an existing table adds exactly the
\* requested columns the live table lacks, and every column the table had
\* keeps its name and type.
C3_SupersetAddsOnlyNew ==
    [][last'.op = "ensure_table" /\ last'.existed =>
         /\ last'.outcome = "returned"
         /\ \A t \in ResultTables \cap DOMAIN tables :
              /\ tables[t] \subseteq tables'[t]
              /\ Cardinality(tables'[t]) = Cardinality(tables[t]) + last'.missing]_vars

ProvenanceColumns ==
    { Col(C_crawl_id, "INTEGER"), Col(C_processed_at, "TIMESTAMP"),
      Col(C_source_file, "TEXT") }

\* The table of the scenario of C4: fields URL, Status Code, Response Time ms
ScenarioColumns ==
    { Col(C_id, "INTEGER"), Col(C_url, "TEXT"), Col(C_status_code, "REAL"),
      Col(C_response_time_ms, "REAL") } \cup ProvenanceColumns

\* C4: an ingest (or ensure_table) for a table that does not exist yet
\* succeeds and creates it with the primary key, the requested columns and
\* the three provenance columns, every name once; ingesting one row with
\* the three fields URL, Status Code, Response Time ms gives the table of
\* the scenario and one stored row.
C4_CreatesTable ==
    last.op \in {"ensure_table", "process_csv"} /\ ~last.existed
      /\ last.outcome # "ParserError" =>
        /\ last.outcome = "returned"
        /\ last.created
        /\ \A t \in ResultTables :
             /\ t \in DOMAIN tables
             /\ {Col(C_id, "INTEGER")} \cup ProvenanceColumns \subseteq tables[t]
             /\ \A c1, c2 \in tables[t] : c1.name = c2.name => c1 = c2
             /\ last.op = "process_csv" /\ last.missing = 6 /\ last.nrows = 1 =>
                  /\ tables[t] = ScenarioColumns
                  /\ BagCardinality(rows[t]) = 1

\* C5: no step removes or retypes a column of any table: every table of
\* the store keeps every (name, type) pair it has.
C5_SchemaMonotonic ==
    [][\A t \in DOMAIN tables :
         t \in DOMAIN tables' /\ tables[t] \subseteq tables'[t]]_vars

\* A table extended by reconciliation, after maintenance has run
C5_Witness ==
    /\ last.op = "ensure_table"
    /\ last.existed
    /\ last.alters > 0
    /\ last.outcome = "returned"
    /\ DOMAIN maintenance_log # {}

\* C6: the existence of a table is read from the store: directly after
\* one instance has created a table, ensure_table of another instance on
\* that table returns normally.
C6_OtherInstanceSucceeds ==
    [][/\ last.op = "ensure_table" /\ last.created
       /\ last'.op = "ensure_table" /\ last'.who # last.who
       => last'.outcome = "returned"]_vars

\* C7: ingesting a batch without rows returns 0, raises nothing and
\* changes no schema: no table created, no column added.
C7_EmptyBatchNoOp ==
    last.op = "process_csv" /\ last.nrows = 0 /\ last.outcome # "ParserError" =>
        /\ last.outcome = "returned"
        /\ last.ret = 0
        /\ ~last.created
        /\ last.alters = 0

---------------------------------------------------------------------------
(* The crawl ledger: claims C11, C12 *)

C12_UnknownIdIsNoOp ==
    [][/\ last'.op = "_update_crawl_failure"
       /\ last'.crawl \notin DOMAIN crawl_metadata
       /\ wrapper.pc = "idle" /\ wrapper'.pc = "idle"
       => /\ last'.outcome = "returned"
          /\ crawl_metadata' = crawl_metadata]_vars

\* A call for an id never issued, on a ledger that holds a record
C12_Witness ==
    /\ last.op = "_update_crawl_failure"
    /\ last.outcome = "returned"
    /\ last.crawl # NoId
    /\ last.crawl \notin DOMAIN crawl_metadata
    /\ DOMAIN crawl_metadata # {}

---------------------------------------------------------------------------
(* Maintenance: claims C13 to C17 *)

\* The crawl records older than now - days
Older(days) ==
    {i \in DOMAIN crawl_metadata : crawl_metadata[i].crawl_date < now - days}

\* A step that is a call of cleanup_old_records
CleanupStep ==
    last'.op = "cleanup" /\ now' = now /\ wrapper' = wrapper

\* C13: cleanup_old_records(days) deletes exactly the crawl records whose
\* crawl date is older than now - days: afterwards those records are gone,
\* every other record is as it was, and so is every result row that
\* references a record that was kept.
C13_CleanupDeletesExactlyOld ==
    [][CleanupStep =>
         /\ DOMAIN crawl_metadata' = DOMAIN crawl_metadata \ Older(last'.days)
         /\ \A i \in DOMAIN crawl_metadata' : crawl_metadata'[i] = crawl_metadata[i]
         /\ \A t \in RowTables : \A r \in BagToSet(rows[t]) :
              r.crawl_id \in DOMAIN crawl_metadata' =>
                CopiesIn(r, rows'[t]) = CopiesIn(r, rows[t])]_vars

\* C14: after cleanup_old_records has deleted crawl records, no result
\* row of any table still references one of them by its crawl_id.
C14_NoOrphanRows ==
    [][CleanupStep =>
         \A t \in RowTables : \A r \in BagToSet(rows'[t]) :
           r.crawl_id \notin DOMAIN crawl_metadata \ DOMAIN crawl_metadata']_vars

\* A step that is a maintenance attempt
MaintenanceStep ==
    last'.op \in {"optimize", "cleanup"} /\ now' = now /\ wrapper' = wrapper

\* C15: every call of optimize_database or cleanup_old_records leaves a
\* maintenance_log row of its own that is completed or failed (failed with
\* an error text) with its completion time set; no row is left in_progress
\* and no row is ever deleted.
C15_AttemptIsLogged ==
    [][/\ \A i \in DOMAIN maintenance_log :
            /\ i \in DOMAIN maintenance_log'
            /\ maintenance_log'[i].status # "in_progress"
       /\ MaintenanceStep =>
            \E i \in DOMAIN maintenance_log' \ DOMAIN maintenance_log :
              /\ maintenance_log'[i].operation = last'.op
              /\ maintenance_log'[i].status \in {"completed", "failed"}
              /\ maintenance_log'[i].completed
              /\ maintenance_log'[i].status = "failed" =>
                   maintenance_log'[i].error_message # NULL]_vars

\* C16: optimize_database and cleanup_old_records always return to their
\* caller: no failure inside them propagates as an exception.
C16_MaintenanceNeverRaises ==
    last.op \in {"optimize", "cleanup"} => last.outcome = "returned"

\* C17: when optimize_database fails, crawl records and result rows are as
\* before the call and maintenance_log holds a row for the attempt with
\* status failed and the error text.
C17_FailedOptimizeIsLogged ==
    [][MaintenanceStep /\ last'.op = "optimize" /\ last'.errors > 0 =>
         /\ crawl_metadata' = crawl_metadata
         /\ rows' = rows
         /\ \E i \in DOMAIN maintenance_log' :
              /\ maintenance_log'[i].operation = "optimize"
              /\ maintenance_log'[i].status = "failed"
              /\ maintenance_log'[i].error_message # NULL]_vars

---------------------------------------------------------------------------
(* Reconciliation: claims C18, C19 *)

\* The number of columns a step adds to table t
Added(t) ==
    Cardinality(tables'[t]) - Cardinality(tables[t])

\* C18: when an ALTER of the reconciliation of an existing table is
\* rejected, the column is skipped: no more columns stay missing than
\* ALTERs were rejected, ensure_table returns normally and the ingestion
\* that called it is not aborted.
C18_RejectedColumnIsSkipped ==
    [][\A t \in ResultTables \cap DOMAIN tables :
         /\ last'.op \in {"ensure_table", "process_csv"}
         /\ last'.alters > Added(t)
         => /\ last'.outcome = "returned"
            /\ last'.missing - Added(t) <= last'.alters - Added(t)]_vars

\* C19: the column list ensure_table and ingestion work on holds no name
\* twice, whatever the batch's field names (fields that get the same name
\* once cleaned are merged), and the names of the columns of a result
\* table differ even when case is ignored.
C19_NamesDeduplicated ==
    /\ last.op \in {"ensure_table", "process_csv"} => ~last.dupl
    /\ \A t \in ResultTables \cap DOMAIN tables : \A c1, c2 \in tables[t] :
         Lower(c1.name) = Lower(c2.name) => c1 = c2

---------------------------------------------------------------------------
(* Type inference: claim C20 *)

\* C20: for every column name that ends with one of the numeric suffixes,
\* in any case of letters, get_column_type returns REAL whatever the
\* sample is: missing, a number, a timestamp or text.
C20_NumericSuffixIsReal ==
    last.op = "get_column_type" /\ last.arg[1] \in SuffixedNames
    => last.outcome = "REAL"

\* A name that also holds a timestamp indicator, in upper case, with a
\* missing sample
C20_Witness ==
    /\ last.op = "get_column_type"
    /\ last.arg = << <<"l","o","a","d","_","t","i","m","e","_","M","S">>, "null" >>
    /\ last.outcome = "REAL"

---------------------------------------------------------------------------
(* Type inference: claim C21 *)

\* The substrings that denote a time
TemporalWords ==
    { <<"d","a","t","e">>, <<"t","i","m","e">>,
      <<"t","i","m","e","s","t","a","m","p">>,
      <<"l","a","s","t"," ","m","o","d","i","f","i","e","d">> }

\* C21: get_column_type follows three rules in this order: a name with a
\* numeric suffix is REAL, also when it holds a temporal substring;
\* otherwise a name that contains date, time, timestamp or 'last modified'
\* is TIMESTAMP; otherwise the sample decides: missing is TEXT, a number is
\* REAL, a date or time is TIMESTAMP, anything else is TEXT.
C21_ThreeRulesInOrder ==
    last.op = "get_column_type" =>
        LET name == last.arg[1]
            kind == last.arg[2]
        IN  last.outcome =
              IF name \in SuffixedNames THEN "REAL"
              ELSE IF \E w \in TemporalWords : Contains(Lower(name), w) THEN "TIMESTAMP"
              ELSE IF kind = "null" THEN "TEXT"
              ELSE IF kind \in {"number", "int64"} THEN "REAL"
              ELSE IF kind = "datetime" THEN "TIMESTAMP"
              ELSE "TEXT"

---------------------------------------------------------------------------
(* Table naming: claim C22 *)

---------------------------------------------------------------------------
(* Base tables: claim C23 *)

BaseTables ==
    {T_schema_version, T_table_schemas, T_maintenance_log, T_crawl_metadata}

\* C23: once a DatabaseManager has been initialised, the schema-version
\* marker, the schema catalog, the maintenance log and the crawl metadata
\* table exist, in that state and in every later one.
C23_BaseTablesExist ==
    dmUp # {} => BaseTables \subseteq DOMAIN tables

---------------------------------------------------------------------------
(* Failures: claim C24 *)

\* A step of an operation that fails: it ends with an exception, it has
\* logged an exception and gone on, or it is a maintenance operation that
\* writes no completed entry
FailingStep ==
    \/ last'.outcome \notin {"none", "returned", "running"}
    \/ last'.errors > 0
    \/ /\ last'.op \in {"cleanup", "optimize"}
       /\ ~\E i \in DOMAIN maintenance_log' \ DOMAIN maintenance_log :
              maintenance_log'[i].status = "completed"

---------------------------------------------------------------------------
(* Cleanup and its log: claim C25 *)

\* The completed cleanup entries a step adds to the log
NewCompleted ==
    {i \in DOMAIN maintenance_log' \ DOMAIN maintenance_log :
        /\ maintenance_log'[i].operation = "cleanup"
        /\ maintenance_log'[i].status = "completed"}

\* The step stores no deletion
NothingDeleted ==
    /\ \A t \in RowTables : rows[t] \sqsubseteq rows'[t]
    /\ DOMAIN crawl_metadata \subseteq DOMAIN crawl_metadata'

\* C25: a cleanup either stores a completed entry together with all its
\* deletions (nothing older than the cutoff is left in a table it cleans),
\* or, when it fails or is killed, stores no deletion and no completed
\* entry.
C25_CleanupAllOrNothing ==
    [][last'.op = "cleanup" =>
         \/ /\ NewCompleted = {}
            /\ NothingDeleted
         \/ /\ NewCompleted # {}
            /\ last'.outcome = "returned"
            /\ T_crawl_metadata \in table_schemas["A"] =>
                 \A i \in DOMAIN crawl_metadata' :
                    ~(crawl_metadata'[i].crawl_date < now - last'.days)
            /\ T_crawl_results \in table_schemas["A"] =>
                 \A r \in BagToSet(rows'[T_crawl_results]) :
                    ~(r.at < now - last'.days)]_vars

\* A cleanup of both tables that has deleted a crawl record and stored its
\* completed entry
C25_Witness ==
    /\ last.op = "cleanup"
    /\ last.outcome = "returned"
    /\ last.ret > 0
    /\ {T_crawl_results, T_crawl_metadata} \subseteq table_schemas["A"]
    /\ \E i \in DOMAIN maintenance_log : maintenance_log[i].status = "completed"
    /\ DOMAIN crawl_metadata = {}

---------------------------------------------------------------------------
(* Appending after reconciliation: claim C26 *)

\* C26: when the reconciliation of an existing table has skipped a column
\* whose ALTER was rejected, the append that follows does not refer to that
\* column and so does not fail: the ingestion returns and every row of the
\* batch is stored.
C26_AppendSkipsRejectedColumn ==
    [][\A t \in ResultTables \cap DOMAIN tables :
         /\ last'.op = "process_csv"
         /\ last'.existed
         /\ last'.alters > Added(t)
         => /\ last'.outcome # "OperationalError"
            /\ last'.appended = last'.nrows]_vars

---------------------------------------------------------------------------
(* Crawl identifiers: claim C27 *)

\* C27: crawl identifiers are not used again: the id of the record a run
\* begins with is none of the ids of the records the cleanup just before it
\* has deleted.
C27_IdsNeverReused ==
    [][/\ last.op = "cleanup"
       /\ last'.op = "run_crawl"
       /\ last'.outcome = "running"
       => last'.crawl \notin last.gone]_vars

---------------------------------------------------------------------------
(* Crawls sharing one output directory: claim C28 *)

---------------------------------------------------------------------------
(* The order of the steps of one run: claim C29 *)

\* A step in which the external crawler has been executed
CrawlerExecuted ==
    \/ outdir' # outdir
    \/ wrapper.pc # "crawled" /\ wrapper'.pc = "crawled"
    \/ last' # last /\ last'.outcome = "CalledProcessError"

\* A step of run_crawl that went into the processing of the results
ResultsProcessed ==
    /\ last' # last
    /\ last'.op = "run_crawl"
    /\ last'.outcome \notin {"running", "FileNotFoundError", "OperationalError",
                             "CalledProcessError"}

\* C29: within one run the started record is committed before the crawler
\* is executed, the results are processed only after the crawler has
\* exited with code 0, a record becomes completed only in the step in
\* which the processing of its run returned, and a run that fails before
\* its record is inserted creates and modifies no record.
C29_RunOrdering ==
    [][/\ CrawlerExecuted =>
            /\ wrapper.pc = "started"
            /\ wrapper.crawl_id \in DOMAIN crawl_metadata
            /\ crawl_metadata[wrapper.crawl_id].crawl_status = "started"
       /\ ResultsProcessed => wrapper.pc = "crawled"
       /\ \A i \in DOMAIN crawl_metadata' :
            /\ crawl_metadata'[i].crawl_status = "completed"
            /\ i \in DOMAIN crawl_metadata =>
                 crawl_metadata[i].crawl_status # "completed"
            => /\ wrapper.pc = "crawled"
               /\ i = wrapper.crawl_id
               /\ ResultsProcessed
               /\ last'.outcome \notin {"Exception", "AttributeError"}
       /\ /\ last' # last
          /\ last'.op = "run_crawl"
          /\ last'.outcome \in {"FileNotFoundError", "OperationalError"}
          => crawl_metadata' = crawl_metadata]_vars

\* A run that failed before its INSERT, on a ledger that holds the record
\* of an earlier run which went through the crawler and the processing
C29_Witness ==
    /\ last.op = "run_crawl"
    /\ last.outcome = "FileNotFoundError"
    /\ wrapper.pc = "idle"
    /\ outdir # {}
    /\ \E i \in DOMAIN crawl_metadata :
         /\ crawl_metadata[i].crawl_status = "failed"
         /\ crawl_metadata[i].error_message = "AttributeError"
=============================================================================
